---- MODULE Spec2Model ----
(***************************************************************************)
(* Model of package imgcat (src/imgcat/imgcat.go): the iTerm2 inline-image *)
(* encoder.  NewEncoder, Encoder.Encode (header, the base64 transcode      *)
(* goroutine feeding an io.Pipe, the io.Copy drain of                      *)
(* MultiReader(header, pr, footer)), Encoder.Writer and writer.Write/Close.*)
(* Bytes are integers 0..255; strings are sequences of bytes.              *)
(***************************************************************************)
EXTENDS Integers, Sequences, FiniteSets, TLC

(* ------------------------------ bounds --------------------------------- *)
\* longest source image, in bytes
MaxLen == 6
\* most bytes a failing destination Write accepts before it reports its error
MaxPartial == 1
\* longest image written to a Writer handle in the runs checked for liveness
MaxWriterLen == 4

(* ------------------------- program constants --------------------------- *)
\* size of the buffer io.Copy reads into
CopyBufLen == 32768
\* size of the base64 encoder's output buffer
EncOutLen == 1024

(* ------------------------------ errors --------------------------------- *)
Nil == "nil"
EOF == "EOF"
ErrClosedPipe == "io: read/write on closed pipe"
ErrSource == "source read error"
ErrDest == "destination write error"
ErrUnsupported == "imgcat is only supported with iTerm2"

Min(a, b) == IF a < b THEN a ELSE b

Take(s, n) == SubSeq(s, 1, n)

Drop(s, n) == SubSeq(s, n + 1, Len(s))

(* ------------------------------ options -------------------------------- *)
\* Inline(true) = "inline=1"
OptInline == <<105, 110, 108, 105, 110, 101, 61, 49>>

\* Size(3) = "size=3"
OptSize == <<115, 105, 122, 101, 61, 51>>

\* the option lists a caller passes to NewEncoder
OptionLists == {<<>>, <<OptInline>>, <<OptSize, OptInline>>}

\* the images a caller encodes are the first n bytes of one of two byte
\* streams whose bytes differ from one position to the next
ImageStreams ==
  {[i \in 1..MaxLen |-> (77 * i + 173) % 256], [i \in 1..MaxLen |-> (1018 - 37 * i) % 256]}

Images == {Take(img, n) : img \in ImageStreams, n \in 0..MaxLen}

(* ------------------------------ framing -------------------------------- *)
\* "\x1bPtmux;\x1b\x1b]1337;File=" in tmux, "\x1b]1337;File=" otherwise
headerEscape(tmux) ==
  IF tmux
  THEN <<27, 80, 116, 109, 117, 120, 59, 27, 27, 93, 49, 51, 51, 55, 59, 70, 105, 108, 101, 61>>
  ELSE <<27, 93, 49, 51, 51, 55, 59, 70, 105, 108, 101, 61>>

\* "\a\x1b\\\n" in tmux, "\a\n" otherwise
footerEscape(tmux) ==
  IF tmux THEN <<7, 27, 92, 10>> ELSE <<7, 10>>

\* headerOptions with ";" written after every option, the last included
RECURSIVE headerOptionsTrailing(_, _)
headerOptionsTrailing(options, i) ==
  IF i > Len(options) THEN <<>>
  ELSE options[i] \o <<59>> \o headerOptionsTrailing(options, i + 1)

\* the loop of Encode over enc.options, from (1-based) index i on:
\* each option, and ";" after every option but the last
RECURSIVE headerOptions(_, _)
headerOptions(options, i) ==
  IF i > Len(options) THEN <<>>
  ELSE options[i] \o (IF i < Len(options) THEN <<59>> ELSE <<>>)
       \o headerOptions(options, i + 1)

\* the header buffer of Encode: escape, options, ":"
buildHeader(options, tmux) ==
  headerEscape(tmux) \o headerOptions(options, 1) \o <<58>>

(* ------------------------------ base64 --------------------------------- *)
\* base64.StdEncoding: A-Z a-z 0-9 + /, padding '='
StdAlphabet ==
  [i \in 0..63 |-> IF i < 26 THEN 65 + i
                   ELSE IF i < 52 THEN 97 + (i - 26)
                   ELSE IF i < 62 THEN 48 + (i - 52)
                   ELSE IF i = 62 THEN 43 ELSE 47]

StdPadding == 61

\* Encoding.Encode of one group of 1..3 bytes: 4 characters, padded
encodeGroup(g) ==
  LET b1 == g[1]
      b2 == IF Len(g) >= 2 THEN g[2] ELSE 0
      b3 == IF Len(g) >= 3 THEN g[3] ELSE 0
      val == b1 * 65536 + b2 * 256 + b3
      c1 == StdAlphabet[(val \div 262144) % 64]
      c2 == StdAlphabet[(val \div 4096) % 64]
      c3 == StdAlphabet[(val \div 64) % 64]
      c4 == StdAlphabet[val % 64]
  IN IF Len(g) = 1 THEN <<c1, c2, StdPadding, StdPadding>>
     ELSE IF Len(g) = 2 THEN <<c1, c2, c3, StdPadding>>
     ELSE <<c1, c2, c3, c4>>

\* Encoding.Encode of a whole buffer: full groups, then a padded remainder
RECURSIVE stdEncode(_)
stdEncode(p) ==
  IF p = <<>> THEN <<>>
  ELSE IF Len(p) <= 3 THEN encodeGroup(p)
  ELSE encodeGroup(Take(p, 3)) \o stdEncode(Drop(p, 3))

(* ------------------------------ io.Pipe -------------------------------- *)
\* a fresh pipe: nothing offered by a writer, not closed
newPipe == [offer |-> FALSE, data |-> <<>>, done |-> FALSE, werr |-> Nil, rerr |-> Nil]

\* pipe.readCloseError: what Read returns once the pipe is done
readCloseError(p) ==
  IF p.rerr = Nil /\ p.werr # Nil THEN p.werr ELSE ErrClosedPipe

\* pipe.writeCloseError: what Write returns once the pipe is done
writeCloseError(p) ==
  IF p.werr = Nil /\ p.rerr # Nil THEN p.rerr ELSE ErrClosedPipe

\* closeWrite that stores the error of the latest call
closeWriteLatest(p, err) ==
  [p EXCEPT !.werr = IF err = Nil THEN EOF ELSE err, !.done = TRUE]

\* PipeWriter.CloseWithError: the first stored error stays, nil means EOF
closeWrite(p, err) ==
  [p EXCEPT !.werr = IF @ = Nil THEN (IF err = Nil THEN EOF ELSE err) ELSE @,
            !.done = TRUE]

\* PipeReader.CloseWithError: the first stored error stays, nil means ErrClosedPipe
closeRead(p, err) ==
  [p EXCEPT !.rerr = IF @ = Nil THEN (IF err = Nil THEN ErrClosedPipe ELSE err) ELSE @,
            !.done = TRUE]

\* pipe.write, first half: the writer hands b to the next reader
pipeOffer(p, b) == [p EXCEPT !.offer = TRUE, !.data = b]

\* pipe.read of n bytes of the offered data: the writer keeps offering the rest
pipeTake(p, n) ==
  [p EXCEPT !.data = Drop(@, n), !.offer = (Len(p.data) > n)]

\* pipe.write gives up on a closed pipe
pipeRetract(p) == [p EXCEPT !.offer = FALSE, !.data = <<>>]

(* ------------------------------- state --------------------------------- *)
VARIABLES
  isSupported,  \* what isSupported() reports
  isTmux,       \* what isTmux() reports now
  argOptions,   \* the options passed to NewEncoder
  src,          \* the image: its bytes, and the offset at which reading it fails (-1: never)
  rest,         \* the image bytes not yet read from the source / written to the handle
  cpc,          \* where the caller is
  enc,          \* the *Encoder NewEncoder returned, or NilEncoder
  newErr,       \* the error NewEncoder returned
  api,          \* "encode": the caller runs Encode(r); "writer": it uses Writer()
  out,          \* the bytes the destination enc.out has received
  outSec,       \* for each byte of out, the reader of the MultiReader it came from
  dstCalls,     \* the Write calls made on the destination, in order
  header,       \* Encode's header buffer
  footer,       \* Encode's footer buffer
  hdrTmux,      \* what IsTmux() returned to headerEscape (FALSE before the call)
  ftrTmux,      \* what IsTmux() returned to footerEscape (FALSE before the call)
  pipe,         \* Encode's pipe (pr, pw): base64 text
  inp,          \* Writer's pipe (pr, pw): raw image bytes
  dpc,          \* where Encode is (header, footer, drain loop)
  dbuf,         \* the chunk the drain loop has read and not yet written
  encodeErr,    \* the error Encode returned
  tpc,          \* where the transcode goroutine is
  tp,           \* the chunk io.Copy passed to the base64 encoder's Write
  copyErr,      \* the error io.Copy(enc, r) returned
  b64,          \* the base64 encoder: pending bytes (buf[:nbuf]) and its sticky error
  closeCalls,   \* number of pw.CloseWithError calls made by the transcode goroutine
  lateWrites,   \* number of pw.Write calls it made after its first pw.CloseWithError
  gpc,          \* where the goroutine started by Writer is
  done,         \* whether w.done has been closed
  doneCloses,   \* number of close(w.done) calls
  writeRet,     \* the error the last w.Write returned
  closeRet,     \* the error w.Close returned
  splitWrite    \* whether a w.Write ended inside a 3-byte group with more of the image to come

vars == <<isSupported, isTmux, argOptions, src, rest, cpc, enc, newErr, api,
          out, outSec, dstCalls, header, footer, hdrTmux, ftrTmux, pipe, inp,
          dpc, dbuf, encodeErr, tpc, tp, copyErr, b64, closeCalls, lateWrites,
          gpc, done,
          doneCloses, writeRet, closeRet, splitWrite>>

envVars == <<isSupported, isTmux>>
inVars == <<argOptions, src>>
callerVars == <<cpc, enc, newErr, api, writeRet, closeRet, splitWrite>>
dstVars == <<out, outSec, dstCalls>>
frameVars == <<header, footer, hdrTmux, ftrTmux>>
drainVars == <<dpc, dbuf, encodeErr>>
transVars == <<tpc, tp, copyErr, b64, closeCalls, lateWrites>>
goVars == <<gpc, done, doneCloses>>

None == "none"

\* the nil *Encoder
NilEncoder == [out |-> None, options |-> <<>>]

NoFail == -1

\* the sources a caller can supply: up to MaxLen bytes, read without error
\* or failing after failAt bytes have been delivered
Sources ==
  UNION {{[data |-> d, failAt |-> f] : f \in NoFail..Len(d)} : d \in Images}

Init ==
  /\ isSupported \in BOOLEAN
  /\ isTmux \in BOOLEAN
  /\ argOptions \in OptionLists
  /\ src \in Sources
  /\ rest = src.data
  /\ cpc = "start"
  /\ enc = NilEncoder
  /\ newErr = Nil
  /\ api = None
  /\ out = <<>>
  /\ outSec = <<>>
  /\ dstCalls = <<>>
  /\ header = <<>>
  /\ footer = <<>>
  /\ hdrTmux = FALSE
  /\ ftrTmux = FALSE
  /\ pipe = newPipe
  /\ inp = newPipe
  /\ dpc = "idle"
  /\ dbuf = <<>>
  /\ encodeErr = Nil
  /\ tpc = "idle"
  /\ tp = <<>>
  /\ copyErr = Nil
  /\ b64 = [buf |-> <<>>, err |-> Nil]
  /\ closeCalls = 0
  /\ lateWrites = 0
  /\ gpc = "idle"
  /\ done = FALSE
  /\ doneCloses = 0
  /\ writeRet = None
  /\ closeRet = None
  /\ splitWrite = FALSE

(* ----------------------------- environment ----------------------------- *)
\* The environment (TMUX_TEST, TERM, TMUX) changes while Encode runs.  IsTmux
\* is read by headerEscape and by footerEscape only, so a change is visible
\* only between those two reads; Init covers every value before the first.
SetTmux ==
  /\ dpc = "footer"
  /\ isTmux' = ~isTmux
  /\ UNCHANGED <<isSupported, inVars, rest, callerVars, dstVars, frameVars, pipe, inp,
                 drainVars, transVars, goVars>>

(* ------------------------------ NewEncoder ----------------------------- *)
\* NewEncoder without the IsSupported check
NewEncoderUnchecked ==
  /\ cpc = "start"
  /\ enc' = [out |-> "w", options |-> argOptions]
  /\ newErr' = Nil
  /\ cpc' = IF isSupported THEN "have_enc" ELSE "unsupported"
  /\ UNCHANGED <<envVars, inVars, rest, api, writeRet, closeRet, splitWrite, dstVars, frameVars,
                 pipe, inp, drainVars, transVars, goVars>>

NewEncoder ==
  /\ cpc = "start"
  /\ IF ~isSupported
     THEN /\ enc' = NilEncoder
          /\ newErr' = ErrUnsupported
          /\ cpc' = "unsupported"
     ELSE /\ enc' = [out |-> "w", options |-> argOptions]
          /\ newErr' = Nil
          /\ cpc' = "have_enc"
  /\ UNCHANGED <<envVars, inVars, rest, api, writeRet, closeRet, splitWrite, dstVars, frameVars,
                 pipe, inp, drainVars, transVars, goVars>>

(* -------------------------------- Encode ------------------------------- *)
\* the caller calls enc.Encode(r) with r the source
CallEncode ==
  /\ cpc = "have_enc"
  /\ api' = "encode"
  /\ cpc' = "in_encode"
  /\ dpc' = "start"
  /\ UNCHANGED <<envVars, inVars, rest, enc, newErr, writeRet, closeRet, splitWrite, dstVars,
                 frameVars, pipe, inp, dbuf, encodeErr, transVars, goVars>>

\* Encode up to the go statement: the header, the pipe, the goroutine
EncodeStart ==
  /\ dpc = "start"
  /\ hdrTmux' = isTmux
  /\ header' = buildHeader(enc.options, isTmux)
  /\ pipe' = newPipe
  /\ tpc' = "copy_read"
  /\ dpc' = "footer"
  /\ UNCHANGED <<envVars, inVars, rest, callerVars, dstVars, footer, ftrTmux, inp,
                 dbuf, encodeErr, tp, copyErr, b64, closeCalls, lateWrites, goVars>>

\* footer := bytes.NewBufferString(footerEscape())
EncodeFooter ==
  /\ dpc = "footer"
  /\ ftrTmux' = isTmux
  /\ footer' = footerEscape(isTmux)
  /\ dpc' = "w_header"
  /\ UNCHANGED <<envVars, inVars, rest, callerVars, dstVars, header, hdrTmux, pipe, inp,
                 dbuf, encodeErr, transVars, goVars>>

\* one Write of p on the destination that accepts all of p
dstWriteOk(p, sec) ==
  /\ out' = out \o p
  /\ outSec' = outSec \o [i \in 1..Len(p) |-> sec]
  /\ dstCalls' = Append(dstCalls, [len |-> Len(p), n |-> Len(p), err |-> Nil])

\* one Write of p on the destination that fails after accepting n bytes
dstWriteFail(p, sec, n) ==
  /\ out' = out \o Take(p, n)
  /\ outSec' = outSec \o [i \in 1..n |-> sec]
  /\ dstCalls' = Append(dstCalls, [len |-> Len(p), n |-> n, err |-> ErrDest])

\* drainWrite that goes on to the next reader after a failed Write
drainWriteOn(p, sec, next) ==
  \/ /\ dstWriteOk(p, sec)
     /\ dpc' = next
     /\ encodeErr' = encodeErr
  \/ \E n \in 0..Min(Len(p), MaxPartial) :
       /\ dstWriteFail(p, sec, n)
       /\ dpc' = next
       /\ encodeErr' = ErrDest

\* io.Copy copies one reader of the MultiReader with a single Write:
\* on an error it returns it, and Encode returns it
drainWrite(p, sec, next) ==
  \/ /\ dstWriteOk(p, sec)
     /\ dpc' = next
     /\ encodeErr' = encodeErr
  \/ \E n \in 0..Min(Len(p), MaxPartial) :
       /\ dstWriteFail(p, sec, n)
       /\ dpc' = "returned"
       /\ encodeErr' = ErrDest

\* DrainHeader for MultiReader(header, footer, pr): the footer comes next
DrainHeaderThenFooter ==
  /\ dpc = "w_header"
  /\ drainWrite(header, "header", "w_footer")
  /\ UNCHANGED <<envVars, inVars, rest, callerVars, frameVars, pipe, inp, dbuf,
                 transVars, goVars>>

\* the header buffer is copied to the destination
DrainHeader ==
  /\ dpc = "w_header"
  /\ drainWrite(header, "header", "r_body")
  /\ UNCHANGED <<envVars, inVars, rest, callerVars, frameVars, pipe, inp, dbuf,
                 transVars, goVars>>

\* DrainRead that takes the end of the body for an error
DrainReadEOFIsError ==
  /\ dpc = "r_body"
  /\ pipe.done \/ pipe.offer
  /\ IF pipe.done
     THEN /\ dpc' = "returned"
          /\ encodeErr' = readCloseError(pipe)
          /\ UNCHANGED <<pipe, dbuf>>
     ELSE /\ dbuf' = Take(pipe.data, Min(CopyBufLen, Len(pipe.data)))
          /\ pipe' = pipeTake(pipe, Min(CopyBufLen, Len(pipe.data)))
          /\ dpc' = "w_body"
          /\ encodeErr' = encodeErr
  /\ UNCHANGED <<envVars, inVars, rest, callerVars, dstVars, frameVars, inp,
                 transVars, goVars>>

\* DrainRead that takes every close of the pipe for the end of the body
DrainReadErrorIsEOF ==
  /\ dpc = "r_body"
  /\ pipe.done \/ pipe.offer
  /\ IF pipe.done
     THEN /\ dpc' = "w_footer"
          /\ encodeErr' = encodeErr
          /\ UNCHANGED <<pipe, dbuf>>
     ELSE /\ dbuf' = Take(pipe.data, Min(CopyBufLen, Len(pipe.data)))
          /\ pipe' = pipeTake(pipe, Min(CopyBufLen, Len(pipe.data)))
          /\ dpc' = "w_body"
          /\ encodeErr' = encodeErr
  /\ UNCHANGED <<envVars, inVars, rest, callerVars, dstVars, frameVars, inp,
                 transVars, goVars>>

\* the drain loop reads pr: a chunk, the end of the body, or the pipe's error
DrainRead ==
  /\ dpc = "r_body"
  /\ pipe.done \/ pipe.offer
  /\ IF pipe.done
     THEN /\ IF readCloseError(pipe) = EOF
             THEN dpc' = "w_footer" /\ encodeErr' = encodeErr
             ELSE dpc' = "returned" /\ encodeErr' = readCloseError(pipe)
          /\ UNCHANGED <<pipe, dbuf>>
     ELSE /\ dbuf' = Take(pipe.data, Min(CopyBufLen, Len(pipe.data)))
          /\ pipe' = pipeTake(pipe, Min(CopyBufLen, Len(pipe.data)))
          /\ dpc' = "w_body"
          /\ encodeErr' = encodeErr
  /\ UNCHANGED <<envVars, inVars, rest, callerVars, dstVars, frameVars, inp,
                 transVars, goVars>>

\* the chunk read from pr is written to the destination
DrainBody ==
  /\ dpc = "w_body"
  /\ drainWrite(dbuf, "body", "r_body")
  /\ dbuf' = <<>>
  /\ UNCHANGED <<envVars, inVars, rest, callerVars, frameVars, pipe, inp,
                 transVars, goVars>>

\* the footer buffer is copied to the destination and Encode returns
DrainFooter ==
  /\ dpc = "w_footer"
  /\ drainWrite(footer, "footer", "returned")
  /\ UNCHANGED <<envVars, inVars, rest, callerVars, frameVars, pipe, inp, dbuf,
                 transVars, goVars>>

(* ------------------------- transcode goroutine ------------------------- *)
\* io.Copy(enc, r) reads the caller's source r: an error at failAt, EOF at
\* the end, otherwise any non-empty chunk of what is left
CopyReadSource ==
  /\ tpc = "copy_read"
  /\ api = "encode"
  /\ LET pos == Len(src.data) - Len(rest)
         most == IF src.failAt = NoFail THEN Len(rest) ELSE src.failAt - pos
     IN IF pos = src.failAt
        THEN /\ copyErr' = ErrSource
             /\ tpc' = "close_err"
             /\ UNCHANGED <<rest, tp>>
        ELSE IF rest = <<>>
        THEN /\ tpc' = "final_close"
             /\ UNCHANGED <<rest, tp, copyErr>>
        ELSE \E n \in 1..Min(CopyBufLen, most) :
               /\ tp' = Take(rest, n)
               /\ rest' = Drop(rest, n)
               /\ tpc' = "enc_write"
               /\ UNCHANGED copyErr
  /\ UNCHANGED <<envVars, inVars, callerVars, dstVars, frameVars, pipe, inp, drainVars,
                 b64, closeCalls, lateWrites, goVars>>

\* io.Copy(enc, r) reads the read end of Writer's pipe
CopyReadPipe ==
  /\ tpc = "copy_read"
  /\ api = "writer"
  /\ inp.done \/ inp.offer
  /\ IF inp.done
     THEN /\ IF readCloseError(inp) = EOF
             THEN tpc' = "final_close" /\ copyErr' = copyErr
             ELSE tpc' = "close_err" /\ copyErr' = readCloseError(inp)
          /\ UNCHANGED <<inp, tp>>
     ELSE /\ tp' = Take(inp.data, Min(CopyBufLen, Len(inp.data)))
          /\ inp' = pipeTake(inp, Min(CopyBufLen, Len(inp.data)))
          /\ tpc' = "enc_write"
          /\ UNCHANGED copyErr
  /\ UNCHANGED <<envVars, inVars, rest, callerVars, dstVars, frameVars, pipe, drainVars,
                 b64, closeCalls, lateWrites, goVars>>

\* the number of bytes the encoder's Write encodes in one block
blockLen(p) ==
  LET nn == (EncOutLen \div 4) * 3
  IN IF nn > Len(p) THEN Len(p) - (Len(p) % 3) ELSE nn

\* pw.Write(b) by the encoder, up to the point where it blocks: on a closed
\* pipe it fails at once and the error ends io.Copy
encPipeWrite(b, buf, p, wait) ==
  IF pipe.done
  THEN /\ b64' = [buf |-> buf, err |-> writeCloseError(pipe)]
       /\ copyErr' = writeCloseError(pipe)
       /\ tpc' = "close_err"
       /\ UNCHANGED <<pipe, tp>>
  ELSE /\ pipe' = pipeOffer(pipe, b)
       /\ b64' = [buf |-> buf, err |-> Nil]
       /\ tp' = p
       /\ tpc' = wait
       /\ UNCHANGED copyErr

\* encInterior that encodes a trailing fringe at once, padded, instead of
\* keeping it for the next Write
encInteriorPadEach(p) ==
  IF Len(p) >= 3
  THEN encPipeWrite(stdEncode(Take(p, blockLen(p))), <<>>, p, "int_wait")
  ELSE IF Len(p) > 0
  THEN encPipeWrite(encodeGroup(p), <<>>, <<>>, "int_wait")
  ELSE /\ b64' = [buf |-> p, err |-> Nil]
       /\ tp' = <<>>
       /\ tpc' = "copy_read"
       /\ UNCHANGED <<pipe, copyErr>>

\* encoder.Write, "large interior chunks" and "trailing fringe": whole groups
\* of p are encoded and written to pw, fewer than 3 bytes are kept in buf
encInterior(p) ==
  IF Len(p) >= 3
  THEN encPipeWrite(stdEncode(Take(p, blockLen(p))), <<>>, p, "int_wait")
  ELSE /\ b64' = [buf |-> p, err |-> Nil]
       /\ tp' = <<>>
       /\ tpc' = "copy_read"
       /\ UNCHANGED <<pipe, copyErr>>

\* a blocked pw.Write fails because the pipe was closed meanwhile
encPipeWriteFailed ==
  /\ b64' = [b64 EXCEPT !.err = writeCloseError(pipe)]
  /\ copyErr' = writeCloseError(pipe)
  /\ pipe' = pipeRetract(pipe)
  /\ tpc' = "close_err"
  /\ UNCHANGED tp

\* encoder.Write(p), entry and "leading fringe": buf is filled up to 3 bytes
\* from p and, when full, encoded and written to pw
EncWrite ==
  /\ tpc = "enc_write"
  /\ IF b64.err # Nil
     THEN /\ copyErr' = b64.err
          /\ tpc' = "close_err"
          /\ UNCHANGED <<pipe, tp, b64>>
     ELSE IF Len(b64.buf) > 0
     THEN LET i == Min(Len(tp), 3 - Len(b64.buf))
              buf == b64.buf \o Take(tp, i)
          IN IF Len(buf) < 3
             THEN /\ b64' = [buf |-> buf, err |-> Nil]
                  /\ tp' = <<>>
                  /\ tpc' = "copy_read"
                  /\ UNCHANGED <<pipe, copyErr>>
             ELSE encPipeWrite(encodeGroup(buf), buf, Drop(tp, i), "lead_wait")
     ELSE encInterior(tp)
  /\ UNCHANGED <<envVars, inVars, rest, callerVars, dstVars, frameVars, inp, drainVars,
                 closeCalls, lateWrites, goVars>>

\* the write of the leading group returns: nbuf = 0, on to the interior
EncLeadWritten ==
  /\ tpc = "lead_wait"
  /\ ~pipe.offer \/ pipe.done
  /\ IF ~pipe.offer
     THEN encInterior(tp)
     ELSE encPipeWriteFailed
  /\ UNCHANGED <<envVars, inVars, rest, callerVars, dstVars, frameVars, inp, drainVars,
                 closeCalls, lateWrites, goVars>>

\* the write of an interior block returns: on to the rest of p
EncBlockWritten ==
  /\ tpc = "int_wait"
  /\ ~pipe.offer \/ pipe.done
  /\ IF ~pipe.offer
     THEN encInterior(Drop(tp, blockLen(tp)))
     ELSE encPipeWriteFailed
  /\ UNCHANGED <<envVars, inVars, rest, callerVars, dstVars, frameVars, inp, drainVars,
                 closeCalls, lateWrites, goVars>>

\* CloseWithCopyError that drops the error: pw.Close()
CloseWithoutCopyError ==
  /\ tpc = "close_err"
  /\ pipe' = closeWrite(pipe, Nil)
  /\ closeCalls' = closeCalls + 1
  /\ tpc' = "deferred"
  /\ UNCHANGED <<envVars, inVars, rest, callerVars, dstVars, frameVars, inp, drainVars,
                 tp, copyErr, b64, lateWrites, goVars>>

\* io.Copy returned an error: pw.CloseWithError(err)
CloseWithCopyError ==
  /\ tpc = "close_err"
  /\ pipe' = closeWrite(pipe, copyErr)
  /\ closeCalls' = closeCalls + 1
  /\ tpc' = "deferred"
  /\ UNCHANGED <<envVars, inVars, rest, callerVars, dstVars, frameVars, inp, drainVars,
                 tp, copyErr, b64, lateWrites, goVars>>

\* FinalClose that closes pw without closing the encoder: no pending group
FinalCloseNoFlush ==
  /\ tpc = "final_close"
  /\ pipe' = closeWrite(pipe, b64.err)
  /\ closeCalls' = closeCalls + 1
  /\ tpc' = "deferred"
  /\ UNCHANGED <<envVars, inVars, rest, callerVars, dstVars, frameVars, inp, drainVars,
                 tp, copyErr, b64, lateWrites, goVars>>

\* io.Copy returned nil: pw.CloseWithError(enc.Close()).  enc.Close() writes
\* the padded pending group to pw if there is one
FinalClose ==
  /\ tpc = "final_close"
  /\ IF b64.err = Nil /\ Len(b64.buf) > 0
     THEN IF pipe.done
          THEN /\ b64' = [buf |-> <<>>, err |-> writeCloseError(pipe)]
               /\ pipe' = closeWrite(pipe, writeCloseError(pipe))
               /\ closeCalls' = closeCalls + 1
               /\ tpc' = "deferred"
          ELSE /\ pipe' = pipeOffer(pipe, encodeGroup(b64.buf))
               /\ tpc' = "final_wait"
               /\ UNCHANGED <<b64, closeCalls>>
     ELSE /\ pipe' = closeWrite(pipe, b64.err)
          /\ closeCalls' = closeCalls + 1
          /\ tpc' = "deferred"
          /\ UNCHANGED b64
  /\ UNCHANGED <<envVars, inVars, rest, callerVars, dstVars, frameVars, inp, drainVars,
                 tp, copyErr, lateWrites, goVars>>

\* the write of the pending group returns, enc.Close() returns its result and
\* pw.CloseWithError is called with it
FinalWritten ==
  /\ tpc = "final_wait"
  /\ ~pipe.offer \/ pipe.done
  /\ LET err == IF ~pipe.offer THEN Nil ELSE writeCloseError(pipe)
     IN /\ b64' = [buf |-> <<>>, err |-> err]
        /\ pipe' = closeWrite(pipeRetract(pipe), err)
  /\ closeCalls' = closeCalls + 1
  /\ tpc' = "deferred"
  /\ UNCHANGED <<envVars, inVars, rest, callerVars, dstVars, frameVars, inp, drainVars,
                 tp, copyErr, lateWrites, goVars>>

\* the deferred function: enc.Close() once more, and pw.CloseWithError(err)
\* if it returns an error.  pw has been closed on every path that gets here,
\* so the write of a pending group by enc.Close() fails at once.
DeferredClose ==
  /\ tpc = "deferred"
  /\ LET flush == b64.err = Nil /\ Len(b64.buf) > 0
         err == IF flush THEN writeCloseError(pipe) ELSE b64.err
     IN /\ b64' = IF flush THEN [buf |-> <<>>, err |-> err] ELSE b64
        /\ lateWrites' = IF flush THEN lateWrites + 1 ELSE lateWrites
        /\ IF err # Nil
           THEN /\ pipe' = closeWrite(pipe, err)
                /\ closeCalls' = closeCalls + 1
           ELSE UNCHANGED <<pipe, closeCalls>>
  /\ tpc' = "done"
  /\ UNCHANGED <<envVars, inVars, rest, callerVars, dstVars, frameVars, inp, drainVars,
                 tp, copyErr, goVars>>

(* ------------------------------- Writer -------------------------------- *)
\* enc.Writer(): the pipe, the handle, and the goroutine that runs Encode(pr)
CallWriter ==
  /\ cpc = "have_enc"
  /\ src.failAt = NoFail
  /\ api' = "writer"
  /\ inp' = newPipe
  /\ gpc' = "encode"
  /\ dpc' = "start"
  /\ cpc' = "writer"
  /\ UNCHANGED <<envVars, inVars, rest, enc, newErr, writeRet, closeRet, splitWrite, dstVars,
                 frameVars, pipe, dbuf, encodeErr, transVars, done, doneCloses>>

\* WriterCloseRead that leaves pr open
WriterLeaveReadOpen ==
  /\ gpc = "encode"
  /\ dpc = "returned"
  /\ encodeErr # Nil
  /\ gpc' = "closed_pr"
  /\ UNCHANGED <<envVars, inVars, rest, callerVars, dstVars, frameVars, pipe, inp, drainVars,
                 transVars, done, doneCloses>>

\* Encode returned an error: pr.CloseWithError(err)
WriterCloseRead ==
  /\ gpc = "encode"
  /\ dpc = "returned"
  /\ encodeErr # Nil
  /\ inp' = closeRead(inp, encodeErr)
  /\ gpc' = "closed_pr"
  /\ UNCHANGED <<envVars, inVars, rest, callerVars, dstVars, frameVars, pipe, drainVars,
                 transVars, done, doneCloses>>

\* WriterDone with close(w.done) not deferred: skipped on the error return
WriterDoneOnSuccess ==
  /\ gpc = "encode" /\ dpc = "returned" /\ encodeErr = Nil
  /\ done' = TRUE
  /\ doneCloses' = doneCloses + 1
  /\ gpc' = "exit"
  /\ UNCHANGED <<envVars, inVars, rest, callerVars, dstVars, frameVars, pipe, inp,
                 drainVars, transVars>>

\* the goroutine ends: the deferred close(w.done)
WriterDone ==
  /\ \/ gpc = "closed_pr"
     \/ gpc = "encode" /\ dpc = "returned" /\ encodeErr = Nil
  /\ done' = TRUE
  /\ doneCloses' = doneCloses + 1
  /\ gpc' = "exit"
  /\ UNCHANGED <<envVars, inVars, rest, callerVars, dstVars, frameVars, pipe, inp,
                 drainVars, transVars>>

\* w.Write(p) with p a non-empty chunk of the image: w.pw.Write(p) fails at
\* once on a closed pipe, and otherwise hands p to the reader
WriteCall ==
  /\ cpc = "writer"
  /\ rest # <<>>
  /\ \E n \in 1..Len(rest) :
       /\ rest' = Drop(rest, n)
       /\ splitWrite' = (splitWrite \/ (n < Len(rest) /\ (Len(src.data) - Len(rest) + n) % 3 # 0))
       /\ IF inp.done
          THEN /\ writeRet' = writeCloseError(inp)
               /\ UNCHANGED <<inp, cpc>>
          ELSE /\ inp' = pipeOffer(inp, Take(rest, n))
               /\ cpc' = "write_wait"
               /\ UNCHANGED writeRet
  /\ UNCHANGED <<envVars, inVars, enc, newErr, api, closeRet, dstVars, frameVars, pipe,
                 drainVars, transVars, goVars>>

\* w.Write returns: all of p was read, or the pipe was closed meanwhile
WriteReturn ==
  /\ cpc = "write_wait"
  /\ ~inp.offer \/ inp.done
  /\ IF ~inp.offer
     THEN /\ writeRet' = Nil
          /\ UNCHANGED inp
     ELSE /\ writeRet' = writeCloseError(inp)
          /\ inp' = pipeRetract(inp)
  /\ cpc' = "writer"
  /\ UNCHANGED <<envVars, inVars, rest, enc, newErr, api, closeRet, splitWrite, dstVars,
                 frameVars, pipe, drainVars, transVars, goVars>>

\* w.Close(), first half: w.pw.Close(), which returns nil
CloseCall ==
  /\ cpc = "writer"
  /\ inp' = closeWrite(inp, Nil)
  /\ cpc' = "close_wait"
  /\ UNCHANGED <<envVars, inVars, rest, enc, newErr, api, writeRet, closeRet, splitWrite,
                 dstVars, frameVars, pipe, drainVars, transVars, goVars>>

\* w.Close(), second half: <-w.done, return nil
CloseReturn ==
  /\ cpc = "close_wait"
  /\ done
  /\ closeRet' = Nil
  /\ cpc' = "closed"
  /\ UNCHANGED <<envVars, inVars, rest, enc, newErr, api, writeRet, splitWrite, dstVars,
                 frameVars, pipe, inp, drainVars, transVars, goVars>>

(* ---------------------------- specification ---------------------------- *)
Next ==
  \/ SetTmux
  \/ NewEncoder
  \/ CallEncode
  \/ EncodeStart
  \/ EncodeFooter
  \/ DrainHeader
  \/ DrainRead
  \/ DrainBody
  \/ DrainFooter
  \/ CopyReadSource
  \/ CopyReadPipe
  \/ EncWrite
  \/ EncLeadWritten
  \/ EncBlockWritten
  \/ CloseWithCopyError
  \/ FinalClose
  \/ FinalWritten
  \/ DeferredClose
  \/ CallWriter
  \/ WriterCloseRead
  \/ WriterDone
  \/ WriteCall
  \/ WriteReturn
  \/ CloseCall
  \/ CloseReturn

Spec == Init /\ [][Next]_vars

\* the steps of Encode's own thread: the header, the drain loop, the footer
EncodeThread ==
  EncodeStart \/ EncodeFooter \/ DrainHeader \/ DrainRead \/ DrainBody \/ DrainFooter

\* the steps of the transcode goroutine
TranscodeGoroutine ==
  \/ CopyReadSource \/ CopyReadPipe \/ EncWrite \/ EncLeadWritten \/ EncBlockWritten
  \/ CloseWithCopyError \/ FinalClose \/ FinalWritten \/ DeferredClose

\* the steps of the Writer's goroutine after its Encode has returned
WriterGoroutine == WriterCloseRead \/ WriterDone

\* the returns of the caller's blocked w.Write and w.Close
CallerUnblocked == WriteReturn \/ CloseReturn

\* the Go scheduler runs every goroutine that can take a step; what the
\* caller calls, and when, is left open
Fairness ==
  /\ WF_vars(EncodeThread)
  /\ WF_vars(TranscodeGoroutine)
  /\ WF_vars(WriterGoroutine)
  /\ WF_vars(CallerUnblocked)

\* the program as used through enc.Writer() alone: the caller never calls
\* Encode itself, the only source is what it writes to the handle
WriterInit ==
  /\ Init
  /\ src.failAt = NoFail
  /\ Len(src.data) <= MaxWriterLen

WriterNext ==
  \/ SetTmux
  \/ NewEncoder
  \/ EncodeStart
  \/ EncodeFooter
  \/ DrainHeader
  \/ DrainRead
  \/ DrainBody
  \/ DrainFooter
  \/ CopyReadPipe
  \/ EncWrite
  \/ EncLeadWritten
  \/ EncBlockWritten
  \/ CloseWithCopyError
  \/ FinalClose
  \/ FinalWritten
  \/ DeferredClose
  \/ CallWriter
  \/ WriterCloseRead
  \/ WriterDone
  \/ WriteCall
  \/ WriteReturn
  \/ CloseCall
  \/ CloseReturn

WriterSpec == WriterInit /\ [][WriterNext]_vars /\ Fairness

TypeOK ==
  /\ closeCalls \in 0..2
  /\ doneCloses \in 0..1
  /\ Len(out) = Len(outSec)
  /\ tpc = "deferred" => pipe.done

(* ----------------------- reference definitions ------------------------- *)
\* the image bytes handed to the encoder so far
Supplied == Take(src.data, Len(src.data) - Len(rest))

\* a Write on the destination has failed
DstFailed == \E i \in DOMAIN dstCalls : dstCalls[i].err # Nil

\* Encode has returned / has returned nil
Returned == dpc = "returned"

Succeeded == dpc = "returned" /\ encodeErr = Nil

\* RFC 4648 base64, stated on bits: the bytes as a bit string, cut into
\* 6-bit values (zero-filled), each mapped through the alphabet table, and
\* '=' appended up to a multiple of 4 characters
RefTable ==
  <<65, 66, 67, 68, 69, 70, 71, 72, 73, 74, 75, 76, 77, 78, 79, 80,
    81, 82, 83, 84, 85, 86, 87, 88, 89, 90, 97, 98, 99, 100, 101, 102,
    103, 104, 105, 106, 107, 108, 109, 110, 111, 112, 113, 114, 115, 116, 117, 118,
    119, 120, 121, 122, 48, 49, 50, 51, 52, 53, 54, 55, 56, 57, 43, 47>>

RECURSIVE Pow2(_)
Pow2(n) == IF n = 0 THEN 1 ELSE 2 * Pow2(n - 1)

RefBits(B) == [k \in 1..(8 * Len(B)) |-> (B[((k - 1) \div 8) + 1] \div Pow2(7 - ((k - 1) % 8))) % 2]

RefBit(bits, k) == IF k <= Len(bits) THEN bits[k] ELSE 0

RefSextet(bits, j) ==
  32 * RefBit(bits, 6 * j - 5) + 16 * RefBit(bits, 6 * j - 4) + 8 * RefBit(bits, 6 * j - 3)
  + 4 * RefBit(bits, 6 * j - 2) + 2 * RefBit(bits, 6 * j - 1) + RefBit(bits, 6 * j)

RefBase64(B) ==
  LET bits == RefBits(B)
      nchar == (Len(bits) + 5) \div 6
      total == 4 * ((Len(B) + 2) \div 3)
  IN [j \in 1..total |-> IF j <= nchar THEN RefTable[RefSextet(bits, j) + 1] ELSE 61]

\* standard base64 decoding: <<-1>> for text that is not padded base64
RefDecode(s) ==
  LET npad == Cardinality({j \in DOMAIN s : s[j] = 61})
      nchar == Len(s) - npad
      wellFormed ==
        /\ Len(s) % 4 = 0
        /\ npad <= 2
        /\ \A j \in DOMAIN s : IF j <= nchar THEN \E v \in 1..64 : RefTable[v] = s[j]
                                            ELSE s[j] = 61
      val(j) == (CHOOSE v \in 1..64 : RefTable[v] = s[j]) - 1
      bit(k) == (val(((k - 1) \div 6) + 1) \div Pow2(5 - ((k - 1) % 6))) % 2
      nbyte == (6 * nchar) \div 8
  IN IF ~wellFormed THEN <<-1>>
     ELSE [m \in 1..nbyte |->
             128 * bit(8 * m - 7) + 64 * bit(8 * m - 6) + 32 * bit(8 * m - 5)
             + 16 * bit(8 * m - 4) + 8 * bit(8 * m - 3) + 4 * bit(8 * m - 2)
             + 2 * bit(8 * m - 1) + bit(8 * m)]

\* the wire format's introducers: ESC ] 1337 ; File = and, in multiplexer
\* mode, ESC P tmux ; ESC ESC ] 1337 ; File =
RefOsc == <<93, 49, 51, 51, 55, 59, 70, 105, 108, 101, 61>>

RefIntroducer(tmux) ==
  IF tmux THEN <<27, 80, 116, 109, 117, 120, 59, 27, 27>> \o RefOsc
  ELSE <<27>> \o RefOsc

RECURSIVE RefJoin(_, _)
RefJoin(strs, sep) ==
  IF strs = <<>> THEN <<>>
  ELSE IF Len(strs) = 1 THEN strs[1]
  ELSE strs[1] \o <<sep>> \o RefJoin(Tail(strs), sep)

Count(s, x) == Cardinality({j \in DOMAIN s : s[j] = x})

SecRank(sec) == IF sec = "header" THEN 1 ELSE IF sec = "body" THEN 2 ELSE 3

\* the number of bytes of out that came from the given reader of the MultiReader
SecLen(sec) == Cardinality({j \in DOMAIN out : outSec[j] = sec})

\* out as cut by those numbers: header part, body part, footer part
HeaderPart == Take(out, SecLen("header"))

BodyPart == SubSeq(out, SecLen("header") + 1, SecLen("header") + SecLen("body"))

FooterPart == Drop(out, SecLen("header") + SecLen("body"))

\* the part of out between the header and the footer
Body == SubSeq(out, Len(header) + 1, Len(out) - Len(footer))

(* ------------------------------- claims -------------------------------- *)
\* C1: the destination receives header, then body, then footer: no body byte
\* before the last header byte, no footer byte before the last body byte
\* (the body being all the base64 text of the bytes supplied), and a
\* successful Encode has written exactly header ++ base64 body ++ footer.
C1_HeaderBodyFooterOrder ==
  /\ \A j \in 1..(Len(out) - 1) : SecRank(outSec[j]) <= SecRank(outSec[j + 1])
  /\ (\E j \in DOMAIN out : outSec[j] # "header") => HeaderPart = header
  /\ (\E j \in DOMAIN out : outSec[j] = "footer") => BodyPart = RefBase64(Supplied)
  /\ Succeeded => out = header \o RefBase64(Supplied) \o footer /\ FooterPart = footer

C1_Witness ==
  /\ Succeeded
  /\ api = "encode"
  /\ Len(src.data) = 4
  /\ Len(dstCalls) = 4
  /\ SecLen("body") = 8

\* C2: on a successful Encode the bytes between header and footer are the
\* padded standard base64 encoding of the source bytes, and decoding them
\* gives back the source bytes.
C2_BodyRoundTrip ==
  Succeeded =>
    /\ Body = RefBase64(Supplied)
    /\ RefDecode(Body) = Supplied
    /\ api = "encode" => Supplied = src.data

C2_Witness ==
  /\ Succeeded
  /\ api = "writer"
  /\ Len(Supplied) = 5
  /\ Len(Body) = 8
  /\ Body[8] = 61

\* C3: Close on the Writer handle returns the error the background Encode
\* ended with (nil when it succeeded).
C3_CloseReturnsEncodeError ==
  cpc = "closed" => closeRet = encodeErr

\* C4: when Close on the Writer handle returns, the chain is terminal: the
\* drain loop of Encode has returned and the transcode goroutine has closed
\* its pipe and has nothing left to run but the end of its deferred function.
C4_CloseAfterChainTerminal ==
  cpc = "closed" =>
    /\ dpc = "returned"
    /\ pipe.done
    /\ tpc \in {"deferred", "done"}

\* C5: a failed destination Write is the last Write attempted on the
\* destination, and Encode returns a non-nil error.
C5_DstErrorStopsWrites ==
  /\ \A i \in DOMAIN dstCalls : dstCalls[i].err # Nil => i = Len(dstCalls)
  /\ DstFailed => Returned /\ encodeErr # Nil

C5_Witness ==
  /\ Len(dstCalls) = 3
  /\ dstCalls[3].err # Nil
  /\ Returned

\* C6: Encode returns the first error it observes: the destination's error
\* if a Write failed, else the error io.Copy got from the source (through
\* the pipe's terminal error); a failing source with a destination that
\* accepts everything makes Encode return the source's error.
C6_EncodeReturnsFirstError ==
  Returned =>
    /\ encodeErr = IF DstFailed THEN ErrDest ELSE copyErr
    /\ (api = "encode" /\ src.failAt # NoFail /\ ~DstFailed) => encodeErr = ErrSource

C6_Witness ==
  /\ Returned
  /\ src.failAt = 4
  /\ encodeErr = ErrSource
  /\ Len(dstCalls) = 2

\* C7: on a destination that accepts its writes, Encode of an empty source,
\* and Close of a Writer handle that was never written to, return nil and
\* have written exactly header ++ footer.
C7_EmptyBody ==
  /\ (api = "encode" /\ src.data = <<>> /\ src.failAt = NoFail /\ Returned /\ ~DstFailed)
       => encodeErr = Nil /\ out = header \o footer
  /\ (cpc = "closed" /\ rest = src.data /\ ~DstFailed)
       => closeRet = Nil /\ encodeErr = Nil /\ out = header \o footer

C7_Witness ==
  /\ cpc = "closed"
  /\ rest = src.data
  /\ src.data # <<>>
  /\ ~DstFailed

\* C8: NewEncoder on an unsupported terminal returns an error and no
\* encoder; on a supported one it returns an encoder with the destination
\* and the options in the order given; neither writes to the destination.
C8_NewEncoder ==
  /\ cpc = "unsupported" =>
       /\ ~isSupported
       /\ newErr # Nil
       /\ enc = NilEncoder
       /\ out = <<>> /\ dstCalls = <<>>
  /\ cpc = "have_enc" =>
       /\ isSupported
       /\ newErr = Nil
       /\ enc = [out |-> "w", options |-> argOptions]
       /\ out = <<>> /\ dstCalls = <<>>
  /\ cpc = "start" => enc = NilEncoder /\ newErr = Nil

C8_Witness ==
  /\ cpc = "unsupported"
  /\ Len(argOptions) = 2

\* C9: the header is the introducer of the mode IsTmux reported, the
\* attributes in order joined by single ';' with no leading or trailing
\* ';', and one ':' that ends it.
C9_HeaderFormat ==
  dpc \notin {"idle", "start"} =>
    LET intro == RefIntroducer(hdrTmux)
        attrs == SubSeq(header, Len(intro) + 1, Len(header) - 1)
    IN /\ header = intro \o RefJoin(enc.options, 59) \o <<58>>
       /\ Count(header, 58) = 1
       /\ header[Len(header)] = 58
       /\ attrs # <<>> => attrs[1] # 59 /\ attrs[Len(attrs)] # 59
       /\ Count(attrs, 59) = (IF enc.options = <<>> THEN 0 ELSE Len(enc.options) - 1)

C9_Witness ==
  /\ hdrTmux
  /\ Len(enc.options) = 2
  /\ dpc = "w_header"

\* C10: the transcode goroutine calls pw.CloseWithError exactly once:
\* never twice, and once by the time it ends.
C10_ExactlyOneClose ==
  /\ closeCalls <= 1
  /\ tpc = "done" => closeCalls = 1

\* C11: once pw has been closed, the pipe stays closed with the result of
\* that first close: later CloseWithError calls do not replace it and every
\* later read of pr reports it.
C11_TerminalStateStable ==
  [][pipe.done => /\ pipe'.done
                  /\ pipe'.werr = pipe.werr
                  /\ readCloseError(pipe') = readCloseError(pipe)]_vars

C11_Witness ==
  /\ closeCalls = 2
  /\ pipe.werr = ErrSource
  /\ Returned
  /\ encodeErr = ErrSource

\* C14: within one Encode call the header and the footer use the same
\* framing variant.
C14_SameFramingVariant ==
  dpc \notin {"idle", "start", "footer"} => hdrTmux = ftrTmux

\* C12: after io.Copy has ended with an error (of a read of the source or
\* of a write to the pipe), the transcode goroutine reads the source no
\* more, closes the pipe with that error, and makes no further write to
\* the pipe, the pending partial group included.
C12_NoIOAfterCopyError ==
  copyErr # Nil =>
    /\ tpc \in {"close_err", "deferred", "done"}
    /\ tpc \in {"deferred", "done"} => pipe.done /\ pipe.werr = copyErr
    /\ lateWrites = 0

\* C13: an error on either side stops the other: after a failed Write on the
\* destination the transcode goroutine neither reads its source nor writes
\* to the pipe any more, and after a failed read of the source the drain
\* loop does not go on to write the footer.
C13_ErrorStopsBothSides ==
  [][/\ DstFailed =>
          /\ ~(tpc = "copy_read" /\ tpc' # "copy_read")
          /\ ~(~pipe.offer /\ pipe'.offer)
          /\ lateWrites' = lateWrites
     /\ copyErr = ErrSource =>
          (dstCalls' # dstCalls => dpc # "w_footer")]_vars

\* C15: on a destination that accepts every write, the Writer handle fed B
\* in any chunks and then closed, and a direct Encode of a source yielding
\* B, both deliver header ++ base64(B) ++ footer: a chunk boundary inside a
\* 3-byte group changes nothing, and '=' occurs only in the last group.
C15_WriterEqualsEncode ==
  /\ (cpc = "closed" /\ ~DstFailed) =>
       /\ encodeErr = Nil
       /\ out = header \o RefBase64(Supplied) \o footer
       /\ \A j \in 1..(Len(Body) - 2) : Body[j] # StdPadding
  /\ (api = "encode" /\ src.failAt = NoFail /\ Succeeded) =>
       out = header \o RefBase64(src.data) \o footer

C15_Witness ==
  /\ cpc = "closed"
  /\ ~DstFailed
  /\ splitWrite
  /\ Len(Supplied) = 5

\* C16: once Encode has returned, the transcode goroutine is not left
\* blocked in a write into the pipe: the only reader of the pipe is Encode's
\* drain loop, so a write still pending on an open pipe then never returns.
C16_GoroutineNotLeftBlocked ==
  Returned => ~(tpc \in {"lead_wait", "int_wait", "final_wait"} /\ pipe.offer /\ ~pipe.done)

\* C17: under fair scheduling a w.Close() that has been called returns,
\* whether the destination accepted or refused its writes, and the done
\* channel is closed once: never twice, and once when Close returns.
C17_CloseReturns ==
  /\ [](doneCloses <= 1)
  /\ (cpc = "close_wait") ~> (cpc = "closed" /\ done /\ doneCloses = 1)

C17_Witness ==
  /\ cpc = "closed"
  /\ doneCloses = 1
  /\ DstFailed
  /\ Len(Supplied) >= 3

C19_NoFooterAfterSourceError ==
  /\ (api = "encode" /\ src.failAt # NoFail) =>
       /\ SecLen("footer") = 0
       /\ dpc # "w_footer"
       /\ out = Take(header \o RefBase64(Take(src.data, src.failAt)), Len(out))
  /\ copyErr # Nil => SecLen("footer") = 0
  /\ (SecLen("footer") > 0 /\ SecLen("footer") = Len(footer)) =>
       /\ copyErr = Nil
       /\ tpc \in {"deferred", "done"}
       /\ api = "encode" => rest = <<>> /\ src.failAt = NoFail

C19_Witness ==
  /\ copyErr = ErrSource
  /\ encodeErr = ErrSource
  /\ Returned
  /\ src.failAt = 5
  /\ SecLen("body") = 4

====
